---- MODULE Spec2Model ----
(***************************************************************************)
(* Model of the Golfzon course scraper (golfzon_scraper.py): safe_goto,     *)
(* load_all_courses, extract_holes_par_yardage, extract_per_hole_info and   *)
(* main, with the exceptions the browser calls can raise as the inputs.     *)
(***************************************************************************)
EXTENDS Integers, Sequences, FiniteSets, TLC

\* ------------------------------------------------------------------ bounds
MaxRetriesArg == 4      \* largest max_retries a safe_goto call is given
MaxItersArg == 5        \* largest max_iters a load_all_courses call is given
MaxStagnantArg == 2     \* largest max_stagnant_rounds given
MaxCount == 3           \* largest card count the listing page renders
MaxCards == 2           \* largest number of cards main collects links from
MaxTabs == 2            \* largest number of children of the tab strip
MaxLimit == 2           \* largest --limit value
MaxHoleNumber == 3      \* largest hole number typed, besides 10
MaxYardNumber == 2      \* largest yardage typed or stored, besides 12

\* ------------------------------------------------------- program constants
DefaultMaxRetries == 4          \* safe_goto(max_retries=4)
DefaultMaxStagnantRounds == 2   \* load_all_courses(max_stagnant_rounds=2)
DefaultMaxIters == 220          \* load_all_courses(max_iters=220)
BackoffUnitMs == 500            \* backoff = 0.5 * attempt (seconds)

\* Python's None for an optional value; Some(x) is a value that is present.
None == <<>>
Some(x) == <<x>>

\* ------------------------------------------------------------- exceptions
\* An exception is its class and its message, the message a sequence of words.
TimeoutErr == [type |-> "TimeoutError", msg |-> <<"Timeout", "10000ms", "exceeded.">>]
NoErr == [type |-> "None", msg |-> <<>>]
KeyboardInterrupt == [type |-> "KeyboardInterrupt", msg |-> <<>>]
TargetClosed == [type |-> "Error", msg |-> <<"Target", "closed">>]
NoCourseLinks == [type |-> "RuntimeError", msg |-> <<"No", "course", "links", "found.">>]

NetErr(code) == [type |-> "Error", msg |-> <<"net::", code>>]

\* What page.goto can raise (KeyboardInterrupt apart).
GotoErrors ==
    { TimeoutErr,
      NetErr("ERR_NAME_NOT_RESOLVED"), NetErr("ERR_CONNECTION_RESET"),
      NetErr("err_connection_closed"), NetErr("ERR_ADDRESS_UNREACHABLE"),
      NetErr("ERR_TIMED_OUT"), NetErr("ERR_ABORTED") }

\* What any other page operation can raise (KeyboardInterrupt apart).
PageErrors == { TimeoutErr, TargetClosed }

\* re.I: the words the messages are made of, upper-cased.
Upper(w) ==
    CASE w = "Timeout" -> "TIMEOUT"
      [] w = "err_connection_closed" -> "ERR_CONNECTION_CLOSED"
      [] OTHER -> w

RETRY_ERR_PATTERN ==
    { "ERR_NAME_NOT_RESOLVED", "ERR_CONNECTION_RESET", "ERR_CONNECTION_CLOSED",
      "ERR_ADDRESS_UNREACHABLE", "TIMEOUT" }

IsRetryableBroken(msg) == TRUE

\* RETRY_ERR_PATTERN.search(msg) is not None
IsRetryable(msg) == \E i \in 1..Len(msg) : Upper(msg[i]) \in RETRY_ERR_PATTERN

\* ------------------------------------------------------------------ state
VARIABLES
    pc,         \* where main (or the function run on its own) stands
    exit,       \* how main ended: "running", "normal", "interrupted", "crashed"
    fatal,      \* the exception that left main's loop-free part, and where
    fn,         \* the frame of a helper function run on its own
    limit,      \* args.limit
    n,          \* n, the number of cards of the listing
    links,      \* links: sequence of [name, url]
    idx,        \* idx of the per-course loop (1-based)
    results,    \* results
    file,       \* golf_courses.json as this run leaves it
    outcomes,   \* per visited course, how its processing ended
    interrupts, \* the places a KeyboardInterrupt arrived at
    closeErrs,  \* the teardown steps that raised
    sg,         \* safe_goto's frame
    la,         \* load_all_courses' frame
    dp          \* the detail page's locals in main and extract_per_hole_info

vars == <<pc, exit, fatal, fn, limit, n, links, idx, results, file, outcomes,
          interrupts, closeErrs, sg, la, dp>>

mainVars == <<exit, fatal, fn, limit, n, links, idx, results, file, outcomes,
              interrupts, closeErrs>>

NotWritten == [written |-> FALSE, content |-> <<>>]
Written(content) == [written |-> TRUE, content |-> content]
NoFatal == [at |-> "None", exc |-> NoErr]
NoScan == [strip |-> "None", count |-> None, labels |-> <<>>]
FnIdle == [name |-> "None"]

SgFrame(max_retries) ==
    [max_retries |-> max_retries, attempt |-> 0, gotoCalls |-> 0,
     sleeps |-> <<>>, lastErr |-> NoErr, result |-> "None"]

LaFrame(max_stagnant_rounds, max_iters) ==
    [max_stagnant_rounds |-> max_stagnant_rounds, max_iters |-> max_iters,
     rounds |-> 0, stagnant |-> 0, last_count |-> -1, observed |-> <<>>,
     result |-> "None"]

DpIdle == [holes |-> None, par |-> None, yardage |-> None,
           hole_tabs |-> <<>>, pos |-> 0, holes_data |-> <<>>, scan |-> NoScan,
           click |-> "None"]

\* ------------------------------------------------- exception propagation
GotoSites == {"listing_goto", "detail_goto", "safe_goto"}
LoadSites == {"load_all", "load_all_courses"}
LoopSites == {"detail_goto", "detail_content", "detail_tabs", "detail_click"}
FunctionSites == {"safe_goto", "load_all_courses"}
TeardownSites == {"close_listing", "close_detail", "close_browser"}

\* The for statement of main's loop moving on after course k.
NextCourse(k) ==
    IF k < Len(links)
    THEN pc' = "detail_goto" /\ idx' = k + 1
    ELSE pc' = "close_listing" /\ idx' = idx

LoopExceptSwallowsInterrupt(e) ==
    /\ outcomes' = Append(outcomes,
                          CASE e.type = "TimeoutError" -> "timeout"
                            [] e.type = "KeyboardInterrupt" -> "interrupted"
                            [] OTHER -> "error")
    /\ interrupts' = IF e.type = "KeyboardInterrupt"
                     THEN interrupts \cup {"loop"} ELSE interrupts
    /\ NextCourse(idx)
    /\ UNCHANGED <<exit, fatal, fn, limit, n, links, results, file, closeErrs>>

LoopExceptRecordsTimeout(e) ==
    /\ outcomes' = Append(outcomes,
                          CASE e.type = "TimeoutError" -> "timeout"
                            [] e.type = "KeyboardInterrupt" -> "interrupted"
                            [] OTHER -> "error")
    /\ interrupts' = IF e.type = "KeyboardInterrupt"
                     THEN interrupts \cup {"loop"} ELSE interrupts
    /\ IF e.type = "KeyboardInterrupt"
       THEN pc' = "close_listing" /\ idx' = idx
       ELSE NextCourse(idx)
    /\ results' = IF e.type = "TimeoutError"
                  THEN Append(results,
                              [name |-> links[idx].name, url |-> links[idx].url,
                               holes |-> None, par |-> None, yardage |-> None,
                               per_hole |-> <<>>])
                  ELSE results
    /\ UNCHANGED <<exit, fatal, fn, limit, n, links, file, closeErrs>>

\* The except clauses of main's per-course try.
LoopExcept(e) ==
    /\ CASE e.type = "TimeoutError" ->
              /\ outcomes' = Append(outcomes, "timeout")
              /\ NextCourse(idx)
              /\ UNCHANGED interrupts
         [] e.type = "KeyboardInterrupt" ->
              /\ outcomes' = Append(outcomes, "interrupted")
              /\ interrupts' = interrupts \cup {"loop"}
              /\ pc' = "close_listing"
              /\ idx' = idx
         [] OTHER ->
              /\ outcomes' = Append(outcomes, "error")
              /\ NextCourse(idx)
              /\ UNCHANGED interrupts
    /\ UNCHANGED <<exit, fatal, fn, limit, n, links, results, file, closeErrs>>

\* An exception leaving the with block: main's outer try catches
\* KeyboardInterrupt only; anything else leaves main.
MainExcept(e) ==
    /\ pc' = "exit"
    /\ exit' = IF e.type = "KeyboardInterrupt" THEN "interrupted" ELSE "crashed"
    /\ fatal' = [at |-> pc, exc |-> e]
    /\ interrupts' = IF e.type = "KeyboardInterrupt"
                     THEN interrupts \cup {pc} ELSE interrupts
    /\ UNCHANGED <<fn, limit, n, links, idx, results, file, outcomes, closeErrs>>

\* An exception raised where pc stands.
Raise(e) ==
    CASE pc \in FunctionSites -> pc' = "raised" /\ UNCHANGED mainVars
      [] pc \in LoopSites -> LoopExcept(e)
      [] OTHER -> MainExcept(e)

\* ---------------------------------------------------------------- safe_goto
ShouldRaiseOffByOne(is_retryable, attempt, max_retries) ==
    ~is_retryable \/ attempt >= max_retries

\* if not is_retryable or attempt > max_retries: raise
ShouldRaise(is_retryable, attempt, max_retries) ==
    ~is_retryable \/ attempt > max_retries

\* The schedule safe_goto's docstring announces ("exponential backoff"):
\* 0.5 s, 1 s, 2 s, 4 s.
BackoffExponential(attempt) == BackoffUnitMs * 2 ^ (attempt - 1)

\* backoff = 0.5 * attempt, in milliseconds
Backoff(attempt) == BackoffUnitMs * attempt

\* safe_goto's frame once the call is over: kept when the function is the
\* program run on its own, gone when main called it.
SgLeft(f) == IF pc = "safe_goto" THEN f ELSE SgFrame(DefaultMaxRetries)

\* page.goto succeeds: return True.
GotoOk ==
    /\ pc \in GotoSites
    /\ sg' = SgLeft([sg EXCEPT !.gotoCalls = @ + 1, !.result = "True"])
    /\ pc' = CASE pc = "listing_goto" -> "listing_wait"
               [] pc = "detail_goto" -> "detail_content"
               [] OTHER -> "returned"
    /\ UNCHANGED <<mainVars, la, dp>>

\* page.goto raises e: retry after the backoff, or re-raise.
GotoFail ==
    /\ pc \in GotoSites
    /\ \E e \in GotoErrors :
         LET attempt == sg.attempt + 1
             is_retryable == IsRetryable(e.msg)
             f == [sg EXCEPT !.gotoCalls = @ + 1, !.attempt = attempt, !.lastErr = e]
         IN  IF ShouldRaise(is_retryable, attempt, sg.max_retries)
             THEN /\ sg' = SgLeft([f EXCEPT !.result = "raised"])
                  /\ Raise(e)
             ELSE /\ sg' = [f EXCEPT !.sleeps = Append(@, Backoff(attempt))]
                  /\ UNCHANGED <<pc, mainVars>>
    /\ UNCHANGED <<la, dp>>

\* A KeyboardInterrupt during page.goto: no except Exception clause catches it.
GotoInterrupted ==
    /\ pc \in GotoSites
    /\ sg' = SgLeft([sg EXCEPT !.gotoCalls = @ + 1, !.lastErr = KeyboardInterrupt,
                              !.result = "raised"])
    /\ Raise(KeyboardInterrupt)
    /\ UNCHANGED <<la, dp>>

\* --------------------------------------------------------- load_all_courses
\* What page.locator(sel_cards).count() gives: a count, or None when it raises.
CountReads == {Some(k) : k \in 0..MaxCount} \cup {None}

CountIncreasedOrEqual(count, last_count) == count >= last_count

\* if count > last_count
CountIncreased(count, last_count) == count > last_count

LaLeft(f) == IF pc = "load_all_courses" THEN f
             ELSE LaFrame(DefaultMaxStagnantRounds, DefaultMaxIters)

\* One round of the for loop: the load-more click and the scroll (their
\* exceptions swallowed), the pause, the count, the stagnation test.
LoadRound ==
    /\ pc \in LoadSites
    /\ la.rounds < la.max_iters
    /\ \E click \in {"absent", "clicked", "raises"}, scroll \in {"ok", "raises"},
          seen \in CountReads :
         LET count == IF seen = None THEN la.last_count ELSE seen[1]
             grew == CountIncreased(count, la.last_count)
             stagnant == IF grew THEN 0 ELSE la.stagnant + 1
             f == [la EXCEPT !.rounds = @ + 1,
                             !.last_count = IF grew THEN count ELSE @,
                             !.stagnant = stagnant,
                             !.observed = IF pc = "load_all_courses"
                                          THEN Append(@, seen) ELSE @]
             break == ~grew /\ stagnant >= la.max_stagnant_rounds
         IN  IF break \/ f.rounds >= la.max_iters
             THEN /\ la' = LaLeft([f EXCEPT !.result = IF break THEN "break" ELSE "exhausted"])
                  /\ pc' = IF pc = "load_all" THEN "collect" ELSE "returned"
             ELSE /\ la' = f
                  /\ pc' = pc
    /\ UNCHANGED <<mainVars, sg, dp>>

\* page.wait_for_timeout(pause_ms) raises, or a KeyboardInterrupt arrives in
\* the round: neither is caught inside load_all_courses.
LoadRaise ==
    /\ pc \in LoadSites
    /\ la.rounds < la.max_iters
    /\ \E e \in PageErrors \cup {KeyboardInterrupt} :
         /\ la' = LaLeft([la EXCEPT !.rounds = @ + 1, !.result = "raised"])
         /\ Raise(e)
    /\ UNCHANGED <<sg, dp>>

\* ------------------------------------------------ extract_holes_par_yardage
\* A candidate text is what the three patterns find in it: the number after
\* each match went through to_int_maybe, or None where the pattern misses.

\* The loop stopping as soon as no field is None.
NotNone(x) == x # None

\* Python's truth value of an int or None: 0 is false as None is.
Truthy(x) == x # None /\ x # Some(0)

RECURSIVE ScanCandidates(_, _, _, _)
\* The for loop over candidates, from the fields found so far; scanned counts
\* the candidates the loop went through.
ScanCandidates(candidates, holes, par, yardage) ==
    IF candidates = <<>>
    THEN [holes |-> holes, par |-> par, yardage |-> yardage, scanned |-> 0]
    ELSE LET text == Head(candidates)
             h == IF holes = None THEN text.holes ELSE holes
             p == IF par = None THEN text.par ELSE par
             y == IF yardage = None THEN text.yardage ELSE yardage
         IN  IF Truthy(h) /\ Truthy(p) /\ Truthy(y)
             THEN [holes |-> h, par |-> p, yardage |-> y, scanned |-> 1]
             ELSE [ScanCandidates(Tail(candidates), h, p, y) EXCEPT !.scanned = @ + 1]

extract_holes_par_yardage(candidates) == ScanCandidates(candidates, None, None, None)

Text(h, p, y) == [holes |-> h, par |-> p, yardage |-> y]

\* The candidate lists of the detail pages served: the summary block (when the
\* page has one) and the full page text.
DetailPages ==
    { <<Text(None, None, None)>>,
      <<Text(None, Some(4), None), Text(Some(1), Some(5), Some(400))>> }

\* --------------------------------------------------- extract_per_hole_info
Digits == {"0", "1", "2", "3", "4", "5", "6", "7", "8", "9"}
Whitespace == {" ", "\t", "\n"}

DigitVal(c) ==
    CASE c = "0" -> 0 [] c = "1" -> 1 [] c = "2" -> 2 [] c = "3" -> 3 [] c = "4" -> 4
      [] c = "5" -> 5 [] c = "6" -> 6 [] c = "7" -> 7 [] c = "8" -> 8 [] c = "9" -> 9

RECURSIVE LStrip(_)
LStrip(s) == IF s # <<>> /\ Head(s) \in Whitespace THEN LStrip(Tail(s)) ELSE s

RECURSIVE RStrip(_)
RStrip(s) == IF s # <<>> /\ s[Len(s)] \in Whitespace
             THEN RStrip(SubSeq(s, 1, Len(s) - 1)) ELSE s

\* str.strip()
Strip(s) == RStrip(LStrip(s))

RECURSIVE LeadingDigits(_)
LeadingDigits(s) == IF s # <<>> /\ Head(s) \in Digits
                    THEN 1 + LeadingDigits(Tail(s)) ELSE 0

IsHoleLabelPrefix(label) ==
    LET k == LeadingDigits(label)
        rest == LStrip(SubSeq(label, k + 1, Len(label)))
    IN  k >= 1 /\ rest # <<>> /\ rest[1] \in {"H", "h"}

\* re.fullmatch(r"\d+\s*H", label, flags=re.I)
IsHoleLabel(label) ==
    LET k == LeadingDigits(label)
        rest == LStrip(SubSeq(label, k + 1, Len(label)))
    IN  k >= 1 /\ Len(rest) = 1 /\ rest[1] \in {"H", "h"}

RECURSIVE DigitsToInt(_, _)
DigitsToInt(s, acc) ==
    IF s = <<>> THEN acc
    ELSE DigitsToInt(Tail(s), IF Head(s) \in Digits THEN 10 * acc + DigitVal(Head(s)) ELSE acc)

\* int(re.sub(r"\D", "", label))
HoleNum(label) == DigitsToInt(label, 0)

\* The inner_text() of the tab strip's children; None where inner_text raises.
TabLabels ==
    { <<"1", "H">>, <<" ", "2", " ", "h", " ">>, <<"1", "8", "H", "o", "l", "e", "s">>, None }

RECURSIVE BuildHoleTabs(_, _)
\* hole_tabs: the (index, hole_num) of the children labelled as holes.
BuildHoleTabs(labels, i) ==
    IF i > Len(labels) THEN <<>>
    ELSE LET label == IF labels[i] = None THEN None ELSE Strip(labels[i])
         IN  IF labels[i] # None /\ IsHoleLabel(label)
             THEN <<[i |-> i - 1, hole_num |-> HoleNum(label)]>> \o BuildHoleTabs(labels, i + 1)
             ELSE BuildHoleTabs(labels, i + 1)

TabCounts == {Some(k) : k \in 0..MaxTabs} \cup {None}

\* What the detail panel of a clicked tab parses to.
HoleBlocks ==
    { [par |-> Some(4),
       tees |-> <<[tee |-> "Blue", distance |-> Some(300), height |-> Some(2)]>>,
       video |-> None] }

\* holes_data[hole_num] = value
DictSet(d, k, v) == [x \in (DOMAIN d) \cup {k} |-> IF x = k THEN v ELSE d[x]]

\* ---------------------------------------------------------------------- main
PageOutcomes == {NoErr} \cup PageErrors \cup {KeyboardInterrupt}
CloseOutcomes == {NoErr, TargetClosed, KeyboardInterrupt}

LimitArgs == {None} \cup {Some(k) : k \in 0..MaxLimit}

\* links[:n]
PySlice(s, k) ==
    IF k >= 0 THEN SubSeq(s, 1, IF k < Len(s) THEN k ELSE Len(s))
    ELSE SubSeq(s, 1, IF Len(s) + k > 0 THEN Len(s) + k ELSE 0)

\* if args.limit: links = links[:args.limit]
ApplyLimit(ls, lim) == IF Truthy(lim) THEN PySlice(ls, lim[1]) ELSE ls

\* The card i of the listing: its h4 text and urljoin(BASE, href).
CardLink(i) == [name |-> <<"Course", i>>, url |-> <<"https://www.global.golfzon.com", "/courses/", i>>]

RECURSIVE CollectLinks(_, _)
\* The loop over the cards: those with both an href and a name give a link.
CollectLinks(cards, i) ==
    IF i > Len(cards) THEN <<>>
    ELSE IF cards[i].href /\ cards[i].name
         THEN <<CardLink(i)>> \o CollectLinks(cards, i + 1)
         ELSE CollectLinks(cards, i + 1)

NoCourseCardsOffByOne(count) == count <= 1

\* if n == 0: raise RuntimeError("No course links found.")
NoCourseCards(count) == count = 0

Init ==
    /\ pc = "listing_goto"
    /\ exit = "running" /\ fatal = NoFatal /\ fn = FnIdle
    /\ limit \in LimitArgs
    /\ n = 0 /\ links = <<>> /\ idx = 0 /\ results = <<>> /\ file = NotWritten
    /\ outcomes = <<>> /\ interrupts = {} /\ closeErrs = {}
    /\ sg = SgFrame(DefaultMaxRetries)
    /\ la = LaFrame(DefaultMaxStagnantRounds, DefaultMaxIters)
    /\ dp = DpIdle

\* listing_page.wait_for_selector("#search-course-body", timeout=10000)
ListingWait ==
    /\ pc = "listing_wait"
    /\ \E o \in PageOutcomes :
         IF o = NoErr THEN pc' = "load_all" /\ UNCHANGED mainVars
         ELSE MainExcept(o)
    /\ UNCHANGED <<sg, la, dp>>

\* The card count, the RuntimeError on zero cards, the links, the limit, the
\* detail page and the empty results.
Collect ==
    /\ pc = "collect"
    /\ \/ \E e \in PageErrors \cup {KeyboardInterrupt} : MainExcept(e)
       \/ \E count \in 0..MaxCards :
            \E cards \in [1..count -> [href : BOOLEAN, name : BOOLEAN]] :
              IF NoCourseCards(count)
              THEN /\ pc' = "exit"
                   /\ exit' = "crashed"
                   /\ fatal' = [at |-> pc, exc |-> NoCourseLinks]
                   /\ n' = count
                   /\ UNCHANGED <<fn, limit, links, idx, results, file, outcomes,
                                  interrupts, closeErrs>>
              ELSE /\ n' = count
                   /\ links' = ApplyLimit(CollectLinks(cards, 1), limit)
                   /\ results' = <<>>
                   /\ IF links' # <<>>
                      THEN pc' = "detail_goto" /\ idx' = 1
                      ELSE pc' = "close_listing" /\ idx' = 0
                   /\ UNCHANGED <<exit, fatal, fn, limit, file, outcomes, interrupts,
                                  closeErrs>>
    /\ UNCHANGED <<sg, la, dp>>

\* detail_page.wait_for_timeout(120), detail_page.content(), the soup and
\* extract_holes_par_yardage.
DetailContent ==
    /\ pc = "detail_content"
    /\ \/ \E e \in PageErrors \cup {KeyboardInterrupt} :
            LoopExcept(e) /\ dp' = DpIdle
       \/ \E page \in DetailPages :
            LET found == extract_holes_par_yardage(page)
            IN  /\ dp' = [DpIdle EXCEPT !.holes = found.holes, !.par = found.par,
                                        !.yardage = found.yardage]
                /\ pc' = "detail_tabs"
                /\ UNCHANGED mainVars
    /\ UNCHANGED <<sg, la>>

\* extract_per_hole_info up to its loop over hole_tabs: the wait for the tab
\* strip, the tab count and the labels.
ScanTabs ==
    /\ pc = "detail_tabs"
    /\ \/ LoopExcept(KeyboardInterrupt) /\ dp' = DpIdle
       \/ /\ dp' = [dp EXCEPT !.scan = [strip |-> "timeout", count |-> None, labels |-> <<>>]]
          /\ pc' = "detail_append"
          /\ UNCHANGED mainVars
       \/ \E count \in TabCounts :
            \E labels \in [1..(IF count = None THEN 0 ELSE count[1]) -> TabLabels] :
              LET hole_tabs == BuildHoleTabs(labels, 1)
              IN  /\ dp' = [dp EXCEPT !.scan = [strip |-> "ok", count |-> count, labels |-> labels],
                                      !.hole_tabs = hole_tabs,
                                      !.pos = 1]
                  /\ pc' = IF hole_tabs = <<>> THEN "detail_append" ELSE "detail_click"
                  /\ UNCHANGED mainVars
    /\ UNCHANGED <<sg, la>>

\* How the click on a hole tab ends: tab.click succeeds, tab.click fails and
\* page.evaluate("(el) => el.click()", tab) succeeds, or both fail.
ClickResults == {"direct", "fallback", "both_fail"}

\* What one pass of the loop over hole_tabs did with its tab.
ClickOutcome(click, found) ==
    IF click = "both_fail" THEN "both_fail"
    ELSE IF found THEN "entry" ELSE "no_block"

\* The loop body without the continue of the inner except: the panel on
\* display is parsed whether or not the tab was clicked.
TabEntryNoContinue(holes_data, hole_num, click, found, block) ==
    IF found THEN DictSet(holes_data, hole_num, block) ELSE holes_data

\* holes_data after one pass: continue when both clicks fail, continue when
\* no block is found, holes_data[hole_num] = {...} otherwise.
TabEntry(holes_data, hole_num, click, found, block) ==
    IF click = "both_fail" \/ ~found
    THEN holes_data
    ELSE DictSet(holes_data, hole_num, block)

\* One pass of extract_per_hole_info's loop over hole_tabs: the click and its
\* fallback, the pause, the content, the block and the entry.
ClickTab ==
    /\ pc = "detail_click"
    /\ LET tab == dp.hole_tabs[dp.pos]
           next == IF dp.pos < Len(dp.hole_tabs) THEN "detail_click" ELSE "detail_append"
       IN  \/ \E e \in PageErrors \cup {KeyboardInterrupt} :
                LoopExcept(e) /\ dp' = DpIdle
           \/ \E click \in ClickResults, found \in BOOLEAN, block \in HoleBlocks :
                /\ dp' = [dp EXCEPT !.pos = @ + 1, !.scan = NoScan,
                                    !.holes_data = TabEntry(@, tab.hole_num, click, found, block),
                                    !.click = ClickOutcome(click, found)]
                /\ pc' = next
                /\ UNCHANGED mainVars
    /\ UNCHANGED <<sg, la>>

\* results.append({...}) and the for statement moving on.
RecordCourse ==
    /\ pc = "detail_append"
    /\ results' = Append(results,
                         [name |-> links[idx].name, url |-> links[idx].url,
                          holes |-> dp.holes, par |-> dp.par, yardage |-> dp.yardage,
                          per_hole |-> dp.holes_data])
    /\ outcomes' = Append(outcomes, "scraped")
    /\ NextCourse(idx)
    /\ dp' = DpIdle
    /\ UNCHANGED <<exit, fatal, fn, limit, n, links, file, interrupts, closeErrs, sg, la>>

\* Which teardown steps stand in a try ... except Exception: pass.
CloseGuarded(site) == site \in {"close_listing", "close_detail"}

\* listing_page.close(), detail_page.close(), browser.close()
Teardown ==
    /\ pc \in TeardownSites
    /\ LET next == CASE pc = "close_listing" -> "close_detail"
                     [] pc = "close_detail" -> "close_browser"
                     [] OTHER -> "save"
       IN  \E o \in CloseOutcomes :
             IF o = NoErr
             THEN pc' = next /\ UNCHANGED mainVars
             ELSE IF o.type # "KeyboardInterrupt" /\ CloseGuarded(pc)
                  THEN /\ pc' = next
                       /\ closeErrs' = closeErrs \cup {pc}
                       /\ UNCHANGED <<exit, fatal, fn, limit, n, links, idx, results, file,
                                      outcomes, interrupts>>
                  ELSE /\ pc' = "exit"
                       /\ exit' = IF o.type = "KeyboardInterrupt" THEN "interrupted" ELSE "crashed"
                       /\ fatal' = [at |-> pc, exc |-> o]
                       /\ interrupts' = IF o.type = "KeyboardInterrupt"
                                        THEN interrupts \cup {pc} ELSE interrupts
                       /\ closeErrs' = IF o.type = "KeyboardInterrupt"
                                       THEN closeErrs ELSE closeErrs \cup {pc}
                       /\ UNCHANGED <<fn, limit, n, links, idx, results, file, outcomes>>
    /\ UNCHANGED <<sg, la, dp>>

\* json.dump(results, f, ...) into golf_courses.json
Save ==
    /\ pc = "save"
    /\ file' = Written(results)
    /\ exit' = "normal"
    /\ pc' = "exit"
    /\ UNCHANGED <<fatal, fn, limit, n, links, idx, results, outcomes, interrupts, closeErrs,
                   sg, la, dp>>

Next ==
    \/ GotoOk \/ GotoFail \/ GotoInterrupted
    \/ ListingWait
    \/ LoadRound \/ LoadRaise
    \/ Collect
    \/ DetailContent \/ ScanTabs \/ ClickTab \/ RecordCourse
    \/ Teardown \/ Save

Spec == Init /\ [][Next]_vars

\* --------------------------------------------------- function-level specs
MainIdle ==
    /\ exit = "running" /\ fatal = NoFatal /\ limit = None /\ n = 0 /\ links = <<>>
    /\ idx = 0 /\ results = <<>> /\ file = NotWritten /\ outcomes = <<>>
    /\ interrupts = {} /\ closeErrs = {} /\ dp = DpIdle

InitGoto ==
    /\ pc = "safe_goto"
    /\ MainIdle /\ fn = FnIdle
    /\ \E m \in 0..MaxRetriesArg : sg = SgFrame(m)
    /\ la = LaFrame(DefaultMaxStagnantRounds, DefaultMaxIters)

NextGoto == GotoOk \/ GotoFail \/ GotoInterrupted

SpecGoto == InitGoto /\ [][NextGoto]_vars

InitLoad ==
    /\ pc = "load_all_courses"
    /\ MainIdle /\ fn = FnIdle
    /\ sg = SgFrame(DefaultMaxRetries)
    /\ \E s \in 1..MaxStagnantArg, m \in 1..MaxItersArg : la = LaFrame(s, m)

NextLoad == LoadRound \/ LoadRaise

SpecLoad == InitLoad /\ [][NextLoad]_vars /\ WF_vars(NextLoad)

\* The commas left where they are.
KeepCommas(s) == s

\* str.replace(",", "")
RECURSIVE RemoveCommas(_)
RemoveCommas(s) ==
    IF s = <<>> THEN <<>>
    ELSE IF Head(s) = "," THEN RemoveCommas(Tail(s))
    ELSE <<Head(s)>> \o RemoveCommas(Tail(s))

\* The position of the first digit of s, 0 when it has none.
FirstDigit(s) ==
    IF \E i \in 1..Len(s) : s[i] \in Digits
    THEN CHOOSE i \in 1..Len(s) :
            s[i] \in Digits /\ \A j \in 1..(i - 1) : s[j] \notin Digits
    ELSE 0

\* NUM_RE.search(s) followed by int(float(m.group(0))) on a text without
\* commas: the leftmost match starts at the first digit, or at the "-" right
\* before it, takes the digits that follow, and float-then-int drops the
\* decimals.
NUM_RE_search(s) ==
    LET i == FirstDigit(s)
        k == LeadingDigits(SubSeq(s, i, Len(s)))
        magnitude == DigitsToInt(SubSeq(s, i, i + k - 1), 0)
    IN  IF i = 0 THEN None
        ELSE Some(IF i > 1 /\ s[i - 1] = "-" THEN 0 - magnitude ELSE magnitude)

\* golfzon_scraper.to_int_maybe(text)
to_int_maybe(text) ==
    IF text = <<>> THEN None ELSE NUM_RE_search(RemoveCommas(text))

\* m = re.search(pattern, text); if m: field = to_int_maybe(m.group(1)).
\* group is the text of group 1, None when the pattern does not match.
FieldOf(group) == IF group = None THEN None ELSE to_int_maybe(group)

\* What the three patterns find in one candidate text.
Searched(groups) ==
    Text(FieldOf(groups.holes), FieldOf(groups.par), FieldOf(groups.yardage))

\* Group 1 of (\d+)\s*H\b, of \bPar\s*([0-9]+) and of ([\d,]+)\s*yd\b in the
\* candidate texts: "18H", "0 h", "Par 72", "par0", "6,500 yd", "0yd" and
\* "(m, yd)", whose group is a lone comma.
HolesGroups == {None, <<"0">>, <<"1", "8">>}
ParGroups == {None, <<"0">>, <<"7", "2">>}
YardageGroups == {None, <<",">>, <<"0">>, <<"6", ",", "5", "0", "0">>}
CandidateTexts ==
    { Text(h, p, y) : h \in HolesGroups, p \in ParGroups, y \in YardageGroups }

\* candidates: the summary block's text when the page has one, then the text
\* of the whole page.
CandidateLists ==
    { <<full>> : full \in CandidateTexts }
      \cup { <<summary, full>> : summary \in CandidateTexts, full \in CandidateTexts }

FramesIdle ==
    /\ sg = SgFrame(DefaultMaxRetries)
    /\ la = LaFrame(DefaultMaxStagnantRounds, DefaultMaxIters)

InitExtract ==
    /\ pc = "extract_holes_par_yardage"
    /\ MainIdle /\ FramesIdle
    /\ \E candidates \in CandidateLists :
         fn = [name |-> "extract_holes_par_yardage", candidates |-> candidates,
               result |-> ScanCandidates(<<>>, None, None, None)]

\* holes, par, yardage = extract_holes_par_yardage(detail_soup)
ExtractApply ==
    /\ pc = "extract_holes_par_yardage"
    /\ fn' = [fn EXCEPT !.result =
                 extract_holes_par_yardage(
                     [i \in 1..Len(fn.candidates) |-> Searched(fn.candidates[i])])]
    /\ pc' = "returned"
    /\ UNCHANGED <<exit, fatal, limit, n, links, idx, results, file, outcomes,
                   interrupts, closeErrs, sg, la, dp>>

NextExtract == ExtractApply

SpecExtract == InitExtract /\ [][NextExtract]_vars

\* ---------------------------------------- easy_search / visual: the helpers
\* The position of the first c in s, 0 when s has none.
FirstOf(s, c) ==
    IF \E i \in 1..Len(s) : s[i] = c
    THEN CHOOSE i \in 1..Len(s) : s[i] = c /\ \A j \in 1..(i - 1) : s[j] # c
    ELSE 0

\* s.split(sep)
RECURSIVE SplitOn(_, _)
SplitOn(s, sep) ==
    LET i == FirstOf(s, sep)
    IN  IF i = 0 THEN <<s>>
        ELSE <<SubSeq(s, 1, i - 1)>> \o SplitOn(SubSeq(s, i + 1, Len(s)), sep)

\* s.isdigit()
IsDigit(s) == s # <<>> /\ \A i \in 1..Len(s) : s[i] \in Digits

\* int(s) of digits with blanks around them
ToInt(s) == DigitsToInt(Strip(s), 0)

\* sorted(holes)
RECURSIVE Sorted(_)
Sorted(holes) ==
    IF holes = {} THEN <<>>
    ELSE LET least == CHOOSE h \in holes : \A other \in holes : h <= other
         IN  <<least>> \o Sorted(holes \ {least})

\* if not total_holes or h <= int(total_holes)
UnderCeiling(h, total_holes) == ~Truthy(total_holes) \/ h <= total_holes[1]

\* The holes one comma-separated part adds: the body of the for loop.
PartHoles(rawPart, total_holes) ==
    LET part == Strip(rawPart)
        dash == FirstOf(part, "-")
        start == SubSeq(part, 1, dash - 1)
        end == SubSeq(part, dash + 1, Len(part))
    IN  IF part = <<>> THEN {}
        ELSE IF dash # 0
        THEN IF IsDigit(Strip(start)) /\ IsDigit(Strip(end))
             THEN LET a == IF ToInt(start) > ToInt(end) THEN ToInt(end) ELSE ToInt(start)
                      b == IF ToInt(start) > ToInt(end) THEN ToInt(start) ELSE ToInt(end)
                  IN  { h \in a..b : UnderCeiling(h, total_holes) }
             ELSE {}
        ELSE IF IsDigit(part) /\ UnderCeiling(ToInt(part), total_holes)
        THEN {ToInt(part)}
        ELSE {}

parse_hole_input(hole_input, total_holes) ==
    LET parts == SplitOn(hole_input, ",")
    IN  Sorted(UNION { PartHoles(parts[i], total_holes) : i \in 1..Len(parts) })

\* The decimal text of a number below 100.
DigitChar(d) == CHOOSE c \in Digits : DigitVal(c) = d
Str(k) == IF k < 10 THEN <<DigitChar(k)>> ELSE <<DigitChar(k \div 10), DigitChar(k % 10)>>

\* The hole expressions typed in: one or two comma-separated tokens, each a
\* single hole, a range (either way round), or a malformed text; a padded
\* token has blanks around its numbers.
HoleNumbers == 0..MaxHoleNumber \cup {10}
Blank(padded) == IF padded THEN <<" ">> ELSE <<>>
Single(a, padded) ==
    [kind |-> "single", a |-> a, b |-> a,
     text |-> Blank(padded) \o Str(a) \o Blank(padded)]
Range(a, b, padded) ==
    [kind |-> "range", a |-> a, b |-> b,
     text |-> Str(a) \o Blank(padded) \o <<"-">> \o Blank(padded) \o Str(b)]
Malformed(text) == [kind |-> "malformed", a |-> 0, b |-> 0, text |-> text]
MalformedTexts ==
    { <<>>, <<" ">>, <<"a">>, <<"1", "-">>, <<"-", "2">>, <<"1", "-", "2", "-", "3">>,
      <<"1", ".", "5">> }
HoleTokens ==
    { Single(a, padded) : a \in HoleNumbers, padded \in BOOLEAN }
      \cup { Range(a, b, padded) : a \in HoleNumbers, b \in HoleNumbers, padded \in BOOLEAN }
      \cup { Malformed(text) : text \in MalformedTexts }
HoleExpressions ==
    { <<t>> : t \in HoleTokens } \cup { <<t, u>> : t \in HoleTokens, u \in HoleTokens }

\* ",".join of the tokens' texts
RECURSIVE JoinTokens(_)
JoinTokens(tokens) ==
    IF Len(tokens) = 1 THEN tokens[1].text
    ELSE tokens[1].text \o <<",">> \o JoinTokens(Tail(tokens))

\* total_holes = selected_course.get("holes")
TotalHoles == {None} \cup { Some(k) : k \in 0..MaxHoleNumber }

InitHoles ==
    /\ pc = "parse_hole_input"
    /\ MainIdle /\ FramesIdle
    /\ \E tokens \in HoleExpressions, total_holes \in TotalHoles :
         fn = [name |-> "parse_hole_input", tokens |-> tokens,
               hole_input |-> JoinTokens(tokens), total_holes |-> total_holes,
               result |-> <<>>]

\* holes = parse_hole_input(hole_input, total_holes=selected_course.get("holes"))
HolesApply ==
    /\ pc = "parse_hole_input"
    /\ fn' = [fn EXCEPT !.result = parse_hole_input(fn.hole_input, fn.total_holes)]
    /\ pc' = "returned"
    /\ UNCHANGED <<exit, fatal, limit, n, links, idx, results, file, outcomes,
                   interrupts, closeErrs, sg, la, dp>>

NextHoles == HolesApply

SpecHoles == InitHoles /\ [][NextHoles]_vars

\* easy_search.to_int_maybe(x) and visual.to_int_maybe(x): str(x) without its
\* commas, searched by NUM_RE; None for None and for a text without a digit.
to_int_maybe_x(x) == NUM_RE_search(RemoveCommas(x))

\* re.findall(r"\d+", t)
RECURSIVE FindAllDigits(_)
FindAllDigits(t) ==
    LET i == FirstDigit(t)
        k == LeadingDigits(SubSeq(t, i, Len(t)))
    IN  IF i = 0 THEN <<>>
        ELSE <<SubSeq(t, i, i + k - 1)>> \o FindAllDigits(SubSeq(t, i + k, Len(t)))

\* t.startswith(prefix)
StartsWith(t, prefix) ==
    Len(t) >= Len(prefix) /\ SubSeq(t, 1, Len(prefix)) = prefix

Bounds(lo, hi) == [lo |-> lo, hi |-> hi]

\* parse_yardage_range(text)
parse_yardage_range(text) ==
    LET t == RemoveCommas(Strip(text))
        dash == FirstOf(t, "-")
        a == to_int_maybe_x(SubSeq(t, 1, dash - 1))
        b == to_int_maybe_x(SubSeq(t, dash + 1, Len(t)))
        found == FindAllDigits(t)
        nums == [i \in 1..Len(found) |-> to_int_maybe_x(found[i])[1]]
    IN  IF text = <<>> THEN Bounds(None, None)
        ELSE IF dash # 0
        THEN IF Truthy(a) /\ Truthy(b) /\ a[1] > b[1] THEN Bounds(b, a) ELSE Bounds(a, b)
        ELSE IF StartsWith(t, <<">", "=">>)
        THEN Bounds(to_int_maybe_x(SubSeq(t, 3, Len(t))), None)
        ELSE IF StartsWith(t, <<"<", "=">>)
        THEN Bounds(None, to_int_maybe_x(SubSeq(t, 3, Len(t))))
        ELSE IF Len(nums) = 0 THEN Bounds(None, None)
        ELSE IF Len(nums) = 1 THEN Bounds(Some(nums[1]), Some(nums[1]))
        ELSE IF nums[1] > nums[2] THEN Bounds(Some(nums[2]), Some(nums[1]))
        ELSE Bounds(Some(nums[1]), Some(nums[2]))

\* within_range(val, lo, hi)
within_range(val, lo, hi) ==
    IF val = None THEN FALSE
    ELSE IF lo # None /\ val[1] < lo[1] THEN FALSE
    ELSE IF hi # None /\ val[1] > hi[1] THEN FALSE
    ELSE TRUE

\* The yardage filter expressions typed in, each with the form it was written
\* in and the numbers it was written from.
YardNumbers == 0..MaxYardNumber \cup {12}
Expression(form, a, b, text) == [form |-> form, a |-> a, b |-> b, text |-> text]
Separators == { <<" ">>, <<",">>, <<",", " ">>, <<" ", " ">> }
NoNumberTexts ==
    { <<>>, <<" ">>, <<"a", "n", "y">>, <<">", "=">>, <<"<", "=", "x">>, <<"-">> }
YardageExpressions ==
    { Expression("lo-hi", a, b, Str(a) \o Blank(padded) \o <<"-">> \o Blank(padded) \o Str(b)) :
          a \in YardNumbers, b \in YardNumbers, padded \in BOOLEAN }
      \cup { Expression("lo-", a, a, Str(a) \o <<"-">>) : a \in YardNumbers }
      \cup { Expression("-hi", a, a, <<"-">> \o Str(a)) : a \in YardNumbers }
      \cup { Expression(">=N", a, a, <<">", "=">> \o Blank(padded) \o Str(a)) :
                a \in YardNumbers, padded \in BOOLEAN }
      \cup { Expression("<=N", a, a, <<"<", "=">> \o Blank(padded) \o Str(a)) :
                a \in YardNumbers, padded \in BOOLEAN }
      \cup { Expression("N", a, a, Blank(padded) \o Str(a) \o Blank(padded)) :
                a \in YardNumbers, padded \in BOOLEAN }
      \cup { Expression("N M", a, b, Str(a) \o sep \o Str(b)) :
                a \in YardNumbers, b \in YardNumbers, sep \in Separators }
      \cup { Expression("other", 0, 0, text) : text \in NoNumberTexts }

\* c.get("yardage") of the courses the filter runs over.
CourseYardages == {None} \cup { Some(k) : k \in YardNumbers }
CourseLists ==
    { <<yd>> : yd \in CourseYardages }
      \cup { <<yd, other>> : yd \in CourseYardages, other \in CourseYardages }

InitYardage ==
    /\ pc = "parse_yardage_range"
    /\ MainIdle /\ FramesIdle
    /\ \E expression \in YardageExpressions, courses \in CourseLists :
         fn = [name |-> "parse_yardage_range", expression |-> expression,
               courses |-> courses, range |-> Bounds(None, None),
               pos |-> 1, filtered |-> <<>>]

\* lo, hi = parse_yardage_range(yardage_text)
YardageApply ==
    /\ pc = "parse_yardage_range"
    /\ fn' = [fn EXCEPT !.range = parse_yardage_range(fn.expression.text)]
    /\ pc' = "filter"
    /\ UNCHANGED <<exit, fatal, limit, n, links, idx, results, file, outcomes,
                   interrupts, closeErrs, sg, la, dp>>

\* One pass of the filter loop without a tee colour:
\* yd = c.get("yardage"); if within_range(yd, lo, hi): filtered.append(...)
FilterCourse ==
    /\ pc = "filter"
    /\ LET yd == fn.courses[fn.pos]
       IN  fn' = [fn EXCEPT !.pos = @ + 1,
                            !.filtered = IF within_range(yd, fn.range.lo, fn.range.hi)
                                         THEN Append(@, yd) ELSE @]
    /\ pc' = IF fn.pos < Len(fn.courses) THEN "filter" ELSE "returned"
    /\ UNCHANGED <<exit, fatal, limit, n, links, idx, results, file, outcomes,
                   interrupts, closeErrs, sg, la, dp>>

NextYardage == YardageApply \/ FilterCourse

SpecYardage == InitYardage /\ [][NextYardage]_vars

\* ------------------------------------------------------------------ claims
SetupSites == {"listing_goto", "listing_wait", "load_all", "collect"}
AfterLoopSites == TeardownSites \cup {"save", "exit"}

RECURSIVE ScrapedUrls(_)
\* The urls of the first k courses whose processing ended in a record, in order.
ScrapedUrls(k) ==
    IF k = 0 THEN <<>>
    ELSE IF outcomes[k] = "scraped"
         THEN Append(ScrapedUrls(k - 1), links[k].url)
         ELSE ScrapedUrls(k - 1)

Urls(records) == [j \in 1..Len(records) |-> records[j].url]

HasRecord(records, k) == \E j \in 1..Len(records) : records[j].url = links[k].url

\* C1 (as claimed): when the only interruption of a run arrives while course
\* k is processed, no further course is visited and the run ends with the
\* output file written, holding exactly the records of the courses before k
\* that completed.
C1_InterruptedLoopSaves ==
    (exit # "running" /\ interrupts = {"loop"}) =>
        /\ outcomes[Len(outcomes)] = "interrupted"
        /\ file.written
        /\ Urls(file.content) = ScrapedUrls(Len(outcomes) - 1)

\* C2 (as claimed): a run that was interrupted, wherever the interruption
\* arrived, has ended with the accumulated records written to the output file.
C2_AnyInterruptSaves ==
    (exit # "running" /\ interrupts # {}) => file = Written(results)

\* C2 (amended): a KeyboardInterrupt never leaves main; one arriving in the
\* per-course loop only stops the loop, with the accumulated records kept for
\* the teardown and the save that follow; one arriving anywhere else (listing
\* navigation, container wait, load_all_courses, link collection, teardown)
\* ends the run at the top level with the output file not written.
C2_InterruptCaughtSaveOnlyAfterLoop ==
    /\ exit = "crashed" => fatal.exc.type # "KeyboardInterrupt"
    /\ (interrupts \ {"loop"}) # {} =>
          pc = "exit" /\ exit = "interrupted" /\ ~file.written
    /\ exit = "interrupted" => (interrupts \ {"loop"}) # {}
    /\ "loop" \in interrupts =>
          /\ pc \in AfterLoopSites
          /\ outcomes[Len(outcomes)] = "interrupted"
          /\ Urls(results) = ScrapedUrls(Len(outcomes) - 1)

C2_Witness ==
    /\ exit = "interrupted" /\ "close_detail" \in interrupts
    /\ results # <<>> /\ ~file.written

\* C3 (as claimed): every course whose processing ended in a TimeoutError has
\* a record in results.
C3_TimeoutKeepsRecord ==
    \A k \in 1..Len(outcomes) : outcomes[k] = "timeout" => HasRecord(results, k)

\* C3 (amended): a course whose processing ended in a TimeoutError reaching
\* main's loop (from safe_goto after its retries, or from a later page
\* operation outside extract_per_hole_info's own handlers) gets no record: it
\* is dropped from results and from the output file, and the loop goes on to
\* the next course.
C3_TimeoutDropsCourse ==
    \A k \in 1..Len(outcomes) :
        outcomes[k] = "timeout" =>
            /\ ~HasRecord(results, k)
            /\ file.written => ~HasRecord(file.content, k)
            /\ IF k < Len(links) THEN idx > k \/ pc \in AfterLoopSites
                                 ELSE pc \in AfterLoopSites

C3_Witness ==
    /\ file.written /\ Len(outcomes) = 2
    /\ outcomes[1] = "timeout" /\ outcomes[2] = "scraped"

\* C4 (as claimed): in a run without interruption, a course whose processing
\* raised does not end the run: every link is visited and the run ends with
\* the output file written.
C4_CourseErrorNeverEndsRun ==
    (/\ exit # "running" /\ interrupts = {}
     /\ \E k \in 1..Len(outcomes) : outcomes[k] \in {"error", "timeout"}) =>
        /\ Len(outcomes) = Len(links)
        /\ file = Written(results)

\* C5: safe_goto retries only after a whitelisted error with the retry count
\* within max_retries; a non-whitelisted error is raised by the goto call that
\* met it, with no sleep after it; a persisting whitelisted error is raised
\* once the count passes max_retries; True is returned only straight after a
\* goto call that succeeded.
WhitelistedErrors ==
    { TimeoutErr, NetErr("ERR_NAME_NOT_RESOLVED"), NetErr("ERR_CONNECTION_RESET"),
      NetErr("err_connection_closed"), NetErr("ERR_ADDRESS_UNREACHABLE") }

RECURSIVE RunMax(_, _)
\* The largest count read in the first i rounds (-1 before any).
RunMax(h, i) ==
    IF i = 0 THEN -1
    ELSE LET m == RunMax(h, i - 1)
         IN  IF h[i] # None /\ h[i][1] > m THEN h[i][1] ELSE m

NoIncrease(h, i) == h[i] = None \/ h[i][1] <= RunMax(h, i - 1)

\* The number of rounds without an increase that end the first i rounds.
RECURSIVE Trailing(_, _)
Trailing(h, i) ==
    IF i = 0 \/ ~NoIncrease(h, i) THEN 0 ELSE 1 + Trailing(h, i - 1)

C6_LoadInv ==
    /\ la.rounds <= la.max_iters
    /\ \A i \in 1..(Len(la.observed) - 1) :
          Trailing(la.observed, i) < la.max_stagnant_rounds
    /\ pc = "load_all_courses" =>
          /\ Len(la.observed) = la.rounds /\ la.rounds < la.max_iters
          /\ Trailing(la.observed, la.rounds) < la.max_stagnant_rounds
    /\ pc = "returned" =>
          /\ Len(la.observed) = la.rounds
          /\ \/ Trailing(la.observed, la.rounds) = la.max_stagnant_rounds
             \/ la.rounds = la.max_iters

C6_LoadAllCoursesTerminates ==
    /\ []C6_LoadInv
    /\ <>(pc \in {"returned", "raised"})

C6_Witness ==
    /\ pc = "returned" /\ la.result = "break"
    /\ la.max_stagnant_rounds = 2 /\ la.rounds = 4 /\ la.last_count = 2

\* C7 (as claimed): in a run with no interruption during teardown, a teardown
\* step that raises does not keep the results from being written.
C7_TeardownFailureSwallowed ==
    (exit # "running" /\ closeErrs # {} /\ interrupts \subseteq {"loop"}) =>
        file = Written(results)

\* C8 (as claimed): a run that an exception ended before any course-level work
\* was ended by the wait for the listing container.
C8_OnlyContainerAborts ==
    (exit = "crashed" /\ fatal.at \in SetupSites) => fatal.at = "listing_wait"

\* C8 (amended): before any course-level work the run is also ended by a
\* listing navigation failure that safe_goto raises, by an exception of
\* load_all_courses or of the link collection, and by a card count of zero
\* (RuntimeError); it is not ended by a listing whose cards give no link: the
\* run then goes through teardown and writes an empty output. A run ended in
\* setup has visited no course and written nothing.
C8_SetupAborts ==
    /\ (exit = "crashed" /\ fatal.at \in SetupSites) =>
          /\ outcomes = <<>> /\ results = <<>> /\ ~file.written
          /\ fatal.at = "listing_goto" => fatal.exc \in GotoErrors
          /\ fatal.at \in {"listing_wait", "load_all"} => fatal.exc \in PageErrors
          /\ fatal.at = "collect" => fatal.exc \in PageErrors \cup {NoCourseLinks}
    /\ fatal.exc = NoCourseLinks => exit = "crashed" /\ fatal.at = "collect" /\ n = 0
    /\ (n = 0 /\ pc \notin SetupSites) => pc = "exit" /\ exit # "normal"
    /\ (n > 0 /\ links = <<>> /\ pc \notin SetupSites) =>
          /\ pc \in AfterLoopSites
          /\ exit = "crashed" => fatal.at = "close_browser"
          /\ exit = "normal" => file = Written(<<>>)

C8_Witness ==
    exit = "crashed" /\ fatal.at = "listing_goto" /\ fatal.exc = NetErr("ERR_ABORTED")

\* C9: a course whose detail page loaded but shows no hole tab (no tab strip,
\* a tab count that fails, or no child labelled '<digits>H') has
\* extract_per_hole_info return an empty mapping without raising, and main
\* appends exactly one record for it, with per_hole empty.
HoleLabelTexts == { <<"1", "H">>, <<" ", "2", " ", "h", " ">> }

ZeroHoleTabs(scan) ==
    \/ scan.strip = "timeout"
    \/ /\ scan.strip = "ok"
       /\ \/ scan.count = None
          \/ \A i \in 1..Len(scan.labels) : scan.labels[i] \notin HoleLabelTexts

C9_Step ==
    /\ (pc = "detail_tabs" /\ ZeroHoleTabs(dp'.scan)) =>
          /\ pc' = "detail_append"
          /\ dp'.holes_data = <<>>
          /\ outcomes' = outcomes /\ results' = results
    /\ (pc = "detail_append" /\ ZeroHoleTabs(dp.scan)) =>
          /\ Len(results') = Len(results) + 1
          /\ SubSeq(results', 1, Len(results)) = results
          /\ results'[Len(results')].url = links[idx].url
          /\ results'[Len(results')].name = links[idx].name
          /\ results'[Len(results')].per_hole = <<>>
          /\ ~HasRecord(results, idx)

C9_ZeroTabsGiveEmptyPerHole == [][C9_Step]_vars

C9_Witness ==
    /\ pc = "detail_append" /\ dp.scan.strip = "ok" /\ dp.scan.count = Some(2)
    /\ ZeroHoleTabs(dp.scan) /\ dp.holes_data = <<>>

\* C10 (as claimed): with --limit N at most N courses are visited and at most
\* N records are written; without --limit every collected link is visited.
C10_LimitCapsCourses ==
    limit # None =>
        /\ Len(links) <= limit[1]
        /\ Len(outcomes) <= limit[1]
        /\ Len(results) <= limit[1]
        /\ file.written => Len(file.content) <= limit[1]

KeysWithinHoles(record) ==
    \A key \in DOMAIN record.per_hole :
        /\ key >= 1
        /\ record.holes # None => key <= record.holes[1]

C11_PerHoleKeysWithinHoles ==
    /\ \A i \in 1..Len(results) : KeysWithinHoles(results[i])
    /\ \A i \in 1..Len(file.content) : KeysWithinHoles(file.content[i])

\* C16: a pass of the loop over hole_tabs whose direct click and fallback click
\* both fail adds no entry, raises nothing (the course is not logged as failed
\* and main's state is untouched) and moves on to the next tab of the strip,
\* or to the end of the function after the last one; a key is added to
\* holes_data only by a pass that clicked its tab and found a block, and it is
\* that tab's hole number, so every key is the number of a tab already passed.
TabsPassed(d) == { d.hole_tabs[j].hole_num : j \in 1..(d.pos - 1) }

C16_Pass ==
    (pc = "detail_click" /\ dp'.pos = dp.pos + 1) =>
        /\ pc' = (IF dp.pos < Len(dp.hole_tabs) THEN "detail_click" ELSE "detail_append")
        /\ dp'.hole_tabs = dp.hole_tabs
        /\ dp'.click = "both_fail" =>
              /\ dp'.holes_data = dp.holes_data
              /\ UNCHANGED <<outcomes, results, interrupts, exit, fatal, idx>>
        /\ dp'.click = "no_block" => dp'.holes_data = dp.holes_data
        /\ (DOMAIN dp'.holes_data # DOMAIN dp.holes_data) =>
              /\ dp'.click = "entry"
              /\ DOMAIN dp'.holes_data = DOMAIN dp.holes_data \cup {dp.hole_tabs[dp.pos].hole_num}
        /\ DOMAIN dp'.holes_data \subseteq TabsPassed(dp')

C16_FailedClickSkipsTab == [][C16_Pass]_vars

C16_Witness ==
    /\ pc = "detail_click" /\ dp.pos = 2 /\ dp.click = "both_fail"
    /\ dp.holes_data = <<>> /\ Len(dp.hole_tabs) = 2

Fields == {"holes", "par", "yardage"}

\* The first candidate, at or after position i, that Has(candidate, field);
\* 0 when there is none.
RECURSIVE FirstThat(_, _, _, _)
FirstThat(Has(_, _), candidates, field, i) ==
    IF i > Len(candidates) THEN 0
    ELSE IF Has(candidates[i], field) THEN i
    ELSE FirstThat(Has, candidates, field, i + 1)

PatternMatches(candidate, field) == candidate[field] # None
YieldsNumber(candidate, field) == Searched(candidate)[field] # None

\* The value of a field taken from the first candidate that Has it.
ValueFromFirst(Has(_, _), candidates, field) ==
    LET i == FirstThat(Has, candidates, field, 1)
    IN  IF i = 0 THEN None ELSE Searched(candidates[i])[field]

\* The candidates scanned when the loop stops after the first candidate by
\* which every field is Done.
ScannedUntil(Done(_, _), candidates) ==
    LET stops == { k \in 1..Len(candidates) : \A f \in Fields : Done(SubSeq(candidates, 1, k), f) }
    IN  IF stops = {} THEN Len(candidates)
        ELSE CHOOSE k \in stops : \A j \in stops : k <= j

MatchedBy(prefix, field) == FirstThat(PatternMatches, prefix, field, 1) # 0
NonZeroBy(prefix, field) ==
    LET v == ValueFromFirst(YieldsNumber, prefix, field)
    IN  v # None /\ v[1] # 0

\* C15 (as claimed): each field is the value of the first candidate in which
\* its pattern matches, and no candidate is scanned once all three fields
\* have had a match.
C15_FirstMatchWins ==
    pc = "returned" =>
        /\ \A f \in Fields :
              fn.result[f] = ValueFromFirst(PatternMatches, fn.candidates, f)
        /\ fn.result.scanned = ScannedUntil(MatchedBy, fn.candidates)

\* C15 (amended): each field is the number of the first candidate that yields
\* one (its pattern matches and the matched group has a digit), so a field
\* once filled is never overwritten; the loop stops right after the first
\* candidate by which all three fields are non-zero numbers, and goes through
\* all the candidates otherwise.
C15_FirstNumberWins ==
    pc = "returned" =>
        /\ \A f \in Fields :
              fn.result[f] = ValueFromFirst(YieldsNumber, fn.candidates, f)
        /\ fn.result.scanned = ScannedUntil(NonZeroBy, fn.candidates)

C15_Witness ==
    /\ pc = "returned" /\ Len(fn.candidates) = 2
    /\ fn.candidates[1].yardage = <<",">> /\ fn.candidates[1].holes = <<"0">>
    /\ fn.candidates[2].holes = <<"1", "8">>
    /\ fn.result.holes = Some(0) /\ fn.result.yardage = Some(6500)
    /\ fn.result.scanned = 2

\* The holes a token lists: the hole of a single, the holes between the two
\* ends of a range, nothing for a malformed token.
Listed(token) ==
    CASE token.kind = "single" -> {token.a}
      [] token.kind = "range" ->
           { h \in HoleNumbers : (token.a <= h /\ h <= token.b) \/ (token.b <= h /\ h <= token.a) }
      [] OTHER -> {}

IsAscending(s) == \A i \in 1..(Len(s) - 1) : s[i] < s[i + 1]

\* C12 (as claimed): with a known ceiling H >= 1, parse_hole_input returns, in
\* ascending order and without duplicates, exactly the holes listed by the
\* singles and ranges of the expression that lie in [1, H]; malformed tokens
\* add nothing.
C12_HolesClippedToCourse ==
    (pc = "returned" /\ fn.total_holes # None /\ fn.total_holes # Some(0)) =>
        /\ IsAscending(fn.result)
        /\ { fn.result[i] : i \in 1..Len(fn.result) }
             = { h \in UNION { Listed(fn.tokens[i]) : i \in 1..Len(fn.tokens) } :
                   1 <= h /\ h <= fn.total_holes[1] }

Parsed == pc \in {"filter", "returned"} /\ fn.name = "parse_yardage_range"
Least(a, b) == IF a <= b THEN a ELSE b
Greatest(a, b) == IF a <= b THEN b ELSE a
Exactly(lo, hi) == fn.range = [lo |-> lo, hi |-> hi]

\* C13 (as claimed): 'lo-hi' gives (lo, hi), '>=N' gives (N, None), '<=N'
\* gives (None, N), a single number N gives (N, N), two bare numbers separated
\* by whitespace or commas give (min, max), and every other text gives
\* (None, None).
C13_FiveForms ==
    Parsed =>
        LET e == fn.expression
        IN  CASE e.form = "lo-hi" -> (e.a <= e.b => Exactly(Some(e.a), Some(e.b)))
              [] e.form = ">=N" -> Exactly(Some(e.a), None)
              [] e.form = "<=N" -> Exactly(None, Some(e.a))
              [] e.form = "N" -> Exactly(Some(e.a), Some(e.a))
              [] e.form = "N M" -> Exactly(Some(Least(e.a, e.b)), Some(Greatest(e.a, e.b)))
              [] OTHER -> Exactly(None, None)

\* The number read from the digits of a followed by the digits of b.
Merged(a, b) == IF b < 10 THEN 10 * a + b ELSE 100 * a + b

\* C13 (amended): commas are dropped before anything is read, so two numbers
\* with only a comma between them read as the one number made of all their
\* digits; two numbers with a blank between them give (min, max); 'lo-hi'
\* gives (lo, hi), swapped when lo > hi and neither is 0; a dash with a number
\* on one side only gives that bound and None for the other; '>=N', '<=N' and
\* a single N are as claimed; a text without a digit gives (None, None).
C13_FormsAsParsed ==
    Parsed =>
        LET e == fn.expression
        IN  CASE e.form = "lo-hi" ->
                   IF e.a # 0 /\ e.b # 0 /\ e.a > e.b
                   THEN Exactly(Some(e.b), Some(e.a))
                   ELSE Exactly(Some(e.a), Some(e.b))
              [] e.form = "lo-" -> Exactly(Some(e.a), None)
              [] e.form = "-hi" -> Exactly(None, Some(e.a))
              [] e.form = ">=N" -> Exactly(Some(e.a), None)
              [] e.form = "<=N" -> Exactly(None, Some(e.a))
              [] e.form = "N" -> Exactly(Some(e.a), Some(e.a))
              [] e.form = "N M" ->
                   IF e.text = Str(e.a) \o <<",">> \o Str(e.b)
                   THEN Exactly(Some(Merged(e.a, e.b)), Some(Merged(e.a, e.b)))
                   ELSE Exactly(Some(Least(e.a, e.b)), Some(Greatest(e.a, e.b)))
              [] OTHER -> Exactly(None, None)

C13_Witness ==
    /\ Parsed /\ fn.expression.form = "N M"
    /\ fn.expression.text = <<"2", ",", "1">>
    /\ Exactly(Some(21), Some(21))

\* C14 (as claimed): with a filter text that has no number the range is
\* (None, None) and the filter keeps every course, whatever its yardage, an
\* absent one included.
C14_NoRangeKeepsAll ==
    (pc = "returned" /\ fn.name = "parse_yardage_range" /\ fn.expression.form = "other") =>
        /\ fn.range = [lo |-> None, hi |-> None]
        /\ fn.filtered = fn.courses

\* C18 (as claimed): when parse_yardage_range returns two bounds, lo <= hi.
C18_BoundsOrdered ==
    (Parsed /\ fn.range.lo # None /\ fn.range.hi # None) =>
        fn.range.lo[1] <= fn.range.hi[1]

====
